---- MODULE Spec2Model ----
(***************************************************************************)
(* A model of nunet-py: the NuNetAdapter of src/src/nunet/base.py (the     *)
(* match request, the contract payment and the status generator job()      *)
(* with its terminate() cleanup), the Action and JobConfig models of       *)
(* src/src/nunet/models.py, and the sequence of src/example/simple_cpu.py. *)
(***************************************************************************)
EXTENDS Integers, Sequences, FiniteSets, TLC

(* ------------------------------------------------------------------ *)
(* Bounds of the model.                                                 *)
(* ------------------------------------------------------------------ *)

\* The longest scripted sequence of inbound frames on the streaming connection.
MaxMsgs == 3

(* ------------------------------------------------------------------ *)
(* JSON and Python values.                                              *)
(* ------------------------------------------------------------------ *)

\* A JSON value is tagged with its type; Absent is a key that is not there.
JNull == [t |-> "null"]
JStr(s) == [t |-> "str", s |-> s]
JNum(n) == [t |-> "num", n |-> n]
JObj(k) == [t |-> "obj", k |-> k]
Absent == [t |-> "absent"]

\* Python values that JSON cannot carry, given to JobConfig by a caller: bytes,
\* a ByteString and a list.
PyBytes(b) == [t |-> "bytes", b |-> b]
PyByteString(b) == [t |-> "ByteString", b |-> b]
PyList == [t |-> "list"]

\* Python's None, str and dict values as the adapter handles them.
PyNone == [py |-> "None"]
PyStr(s) == [py |-> "str", s |-> s]
PyDict(k) == [py |-> "dict", k |-> k]

\* No exception in flight, and an exception of a type raised at a place.
NoExc == [type |-> "none", at |-> "nowhere"]
Exc(type, at) == [type |-> type, at |-> at]

\* What a consumer's next() or close() gets, when it is not an exception.
Nothing == [got |-> "nothing"]
Item == [got |-> "item"]
StopIteration == [got |-> "StopIteration"]
CloseReturned == [got |-> "closed"]

\* An inbound text frame holding a JSON object with these three keys, and a
\* text frame that is not JSON at all.
Text(a, m, s) == [json |-> TRUE, action |-> a, message |-> m, stdout |-> s]
Garbage == [json |-> FALSE]

\* The frames the peer may send.
Frames ==
    { Text(JStr("job-status"), Absent, JStr("out")),
      Text(JStr("job-status"), JStr("msg"), JNull),
      Text(JStr("job-completed"), JObj("result"), Absent),
      Text(Absent, JStr("msg"), Absent),
      Text(JNum(5), Absent, JStr("out")),
      Garbage }

\* The transaction identifiers a caller may pass to job().
TxHashes == {[id |-> "tx1"], [id |-> "tx2"]}

\* No transaction identifier.
NoTx == [none |-> TRUE]

\* All sequences over S of length at most n.
SeqsUpTo(S, n) == UNION { [1..k -> S] : k \in 0..n }

(* ------------------------------------------------------------------ *)
(* models.py: Action.                                                   *)
(* ------------------------------------------------------------------ *)

\* action: str (required).
ActionFieldOk(v) == v.t = "str"

\* message: Union[str, dict, None] = None.
MessageFieldOk(v) == v.t \in {"str", "obj", "null", "absent"}

\* stdout: Optional[str] = None.
StdoutFieldOk(v) == v.t \in {"str", "null", "absent"}

\* Whether Action.model_validate_json accepts the frame.
ActionValid(f) ==
    /\ f.json
    /\ ActionFieldOk(f.action)
    /\ MessageFieldOk(f.message)
    /\ StdoutFieldOk(f.stdout)

\* A validated JSON field as the Python value of the model's attribute.
ToPy(v) ==
    CASE v.t = "str" -> PyStr(v.s)
      [] v.t = "obj" -> PyDict(v.k)
      [] OTHER -> PyNone

\* The Action that Action.model_validate_json builds from a valid frame.
ParseAction(f) ==
    [action |-> f.action.s, message |-> ToPy(f.message), stdout |-> ToPy(f.stdout)]

(* ------------------------------------------------------------------ *)
(* base.py: the messages the adapter sends.                             *)
(* ------------------------------------------------------------------ *)

\* Mutant: the funding confirmation names a fixed transaction, not the argument.
FundMessageFixed(tx) ==
    [message |-> [transaction_status |-> "success",
                  transaction_type |-> "fund",
                  tx_hash |-> [id |-> "tx1"]],
     action |-> "send-status"]

FundMessage(tx) ==
    [message |-> [transaction_status |-> "success",
                  transaction_type |-> "fund",
                  tx_hash |-> tx],
     action |-> "send-status"]

TerminateMessage == [action |-> "terminate-job"]

\* Mutant: the payload is chosen by truth value, `parsed.stdout or
\* parsed.message`, so an empty stdout gives way to the message.
YieldOfTruthy(parsed) ==
    <<parsed.action,
      IF parsed.stdout # PyNone /\ parsed.stdout # PyStr("")
        THEN parsed.stdout ELSE parsed.message>>

\* The pair job() yields for a parsed Action.
YieldOf(parsed) ==
    <<parsed.action, IF parsed.stdout # PyNone THEN parsed.stdout ELSE parsed.message>>

\* Mutant: the completion test reads the payload's place instead of the action.
IsCompletedByMessage(p) == p.message = PyStr("job-completed")

\* The test that ends the generator after a yield.
IsCompleted(parsed) == parsed.action = "job-completed"

(* ------------------------------------------------------------------ *)
(* State.                                                               *)
(* ------------------------------------------------------------------ *)

VARIABLES
    pc,         \* the position of the generator job(): "idle" before the call,
                \* "created" and "yield" while it waits for its consumer, "done"
                \* once its body has exited, "closed" when closed before it ran
    tx_hash,    \* the argument of job()
    conns,      \* every connection opened: [open, sent, read]
    websocket,  \* job()'s connection (an index of conns, 0: none)
    tws,        \* terminate()'s connection (an index of conns, 0: none)
    inbound,    \* the frames the peer has still to deliver on the streaming connection
    ending,     \* how the peer's stream ends after them: "ok" or "error"
    frame,      \* the frame received and not yet parsed
    parsed,     \* the Action of the last yield
    exc,        \* the exception in flight in the generator
    context,    \* the exception it replaced (__context__)
    request,    \* what the consumer asked last: "none", "next", "close"
    outcome,    \* what the consumer got last
    received,   \* every frame received, in order
    yielded     \* every pair yielded, in order

chanVars == <<pc, tx_hash, conns, websocket, tws, inbound, ending, frame, parsed,
              exc, context, request, outcome, received, yielded>>

\* The run of example/simple_cpu.py, the ledger and the match service.
VARIABLES
    spc,          \* the position of the script
    job_config,   \* what request_service returned (the script's job_request, line 47)
    txid,         \* what pay returned (line 49)
    scriptErr,    \* the exception that ended the script
    wallet,       \* what the payer's address holds: [coin, ntx]
    chain,        \* the transactions the ledger accepted, in order
    submitCalls,  \* the calls of context.submit_tx
    posts,        \* the POSTs made to the match endpoint
    matched,      \* the JobConfigs request_service returned
    presets,      \* the module-level JobConstraints objects of models.py
    job_request,  \* the JobRequest the script built (lines 39-45)
    response,     \* what the match endpoint answered to the POST
    last_block_slot  \* the slot the chain is at

scriptVars == <<spc, job_config, txid, scriptErr, wallet, chain, submitCalls, posts,
                matched, presets, job_request, response, last_block_slot>>

\* A JobConfig constructed by a caller and priced.
VARIABLES
    kwargs,       \* the field values given to JobConfig
    built,        \* the JobConfig constructed, or the exception raised
    priced        \* what cost() returned for it

callVars == <<kwargs, built, priced>>

vars == <<chanVars, scriptVars, callVars>>

NoFrame == [json |-> FALSE, none |-> TRUE]
NoAction == [action |-> "", message |-> PyNone, stdout |-> PyNone]

InitChannelWith(n) ==
    /\ pc = "idle"
    /\ tx_hash = NoTx
    /\ conns = <<>>
    /\ websocket = 0
    /\ tws = 0
    /\ inbound \in SeqsUpTo(Frames, n)
    /\ ending \in {"ok", "error"}
    /\ frame = NoFrame
    /\ parsed = NoAction
    /\ exc = NoExc
    /\ context = NoExc
    /\ request = "none"
    /\ outcome = Nothing
    /\ received = <<>>
    /\ yielded = <<>>

(* ------------------------------------------------------------------ *)
(* websockets.sync.client: connect, send, close.                        *)
(* ------------------------------------------------------------------ *)

\* connect(SEND_STATUS) succeeding: a new open connection, nothing sent on it.
Opened(cs) == Append(cs, [open |-> TRUE, sent |-> <<>>, read |-> 0])

\* websocket.send(m) succeeding on connection c.
Sent(cs, c, m) == [cs EXCEPT ![c].sent = Append(@, m)]

\* One more frame read from connection c.
ReadFrom(cs, c) == [cs EXCEPT ![c].read = @ + 1]

\* Leaving a `with connect(...)` block: the connection is closed.
Closed(cs, c) == [cs EXCEPT ![c].open = FALSE]

(* ------------------------------------------------------------------ *)
(* base.py: NuNetAdapter.job, a generator.                              *)
(* ------------------------------------------------------------------ *)

\* The connection job() sends on and iterates over: its local `websocket`.
StreamSocket == websocket

\* Mutant: terminate() reuses the connection of job().
TermSocketShared == websocket

\* The connection terminate() sends on: its own local `websocket`.
TermSocket == tws

\* Mutant: job() is an ordinary function that connects when it is called.
JobCallEager(tx) ==
    /\ pc = "idle"
    /\ pc' = "created"
    /\ tx_hash' = tx
    /\ conns' = Opened(conns)
    /\ websocket' = Len(conns) + 1
    /\ UNCHANGED <<tws, inbound, ending, frame, parsed, exc, context, request,
                   outcome, received, yielded>>

\* adapter.job(tx): the generator object is created; none of its body runs.
JobCall(tx) ==
    /\ pc = "idle"
    /\ pc' = "created"
    /\ tx_hash' = tx
    /\ UNCHANGED <<conns, websocket, tws, inbound, ending, frame, parsed, exc,
                   context, request, outcome, received, yielded>>

\* next(gen): the body starts, or resumes after its yield.
GenNext ==
    /\ pc \in {"created", "yield"}
    /\ pc' = IF pc = "created" THEN "connect" ELSE "resume"
    /\ request' = "next"
    /\ outcome' = Nothing
    /\ UNCHANGED <<tx_hash, conns, websocket, tws, inbound, ending, frame, parsed,
                   exc, context, received, yielded>>

\* gen.close(), also what dropping the generator after a break does: a generator
\* that never started just ends; one suspended at its yield gets GeneratorExit there.
GenClose ==
    /\ pc \in {"created", "yield"}
    /\ request' = "close"
    /\ IF pc = "created"
         THEN /\ pc' = "closed"
              /\ outcome' = CloseReturned
              /\ exc' = exc
         ELSE /\ pc' = "finally"
              /\ outcome' = Nothing
              /\ exc' = Exc("GeneratorExit", "yield")
    /\ UNCHANGED <<tx_hash, conns, websocket, tws, inbound, ending, frame, parsed,
                   context, received, yielded>>

\* Mutant: the connection is opened inside the try, so a failed connect runs
\* the finally clause.
ConnectInsideTry ==
    /\ pc = "connect"
    /\ \E ok \in BOOLEAN :
         IF ok
           THEN /\ conns' = Opened(conns)
                /\ websocket' = Len(conns) + 1
                /\ pc' = "sendFund"
                /\ UNCHANGED <<exc, outcome>>
           ELSE /\ exc' = Exc("ConnectError", "job.connect")
                /\ pc' = "finally"
                /\ UNCHANGED <<conns, websocket, outcome>>
    /\ UNCHANGED <<tx_hash, tws, inbound, ending, frame, parsed, context, request,
                   received, yielded>>

\* Line 217, `with connect(SEND_STATUS) as websocket`, outside the try: a failure
\* leaves the generator at once.
Connect ==
    /\ pc = "connect"
    /\ \E ok \in BOOLEAN :
         IF ok
           THEN /\ conns' = Opened(conns)
                /\ websocket' = Len(conns) + 1
                /\ pc' = "sendFund"
                /\ UNCHANGED <<exc, outcome>>
           ELSE /\ exc' = Exc("ConnectError", "job.connect")
                /\ outcome' = Exc("ConnectError", "job.connect")
                /\ pc' = "done"
                /\ UNCHANGED <<conns, websocket>>
    /\ UNCHANGED <<tx_hash, tws, inbound, ending, frame, parsed, context, request,
                   received, yielded>>

\* Lines 219-230: the funding confirmation, inside the try.
SendFund ==
    /\ pc = "sendFund"
    /\ \E ok \in BOOLEAN :
         IF ok
           THEN /\ conns' = Sent(conns, StreamSocket, FundMessage(tx_hash))
                /\ pc' = "recv"
                /\ exc' = exc
           ELSE /\ exc' = Exc("ConnectionClosed", "job.send")
                /\ pc' = "finally"
                /\ conns' = conns
    /\ UNCHANGED <<tx_hash, websocket, tws, inbound, ending, frame, parsed, context,
                   request, outcome, received, yielded>>

\* Mutant: the frames are read with recv() in a `while True`, so the peer's
\* normal close raises ConnectionClosedOK instead of ending the loop.
RecvCloseRaises ==
    /\ pc = "recv"
    /\ IF inbound # <<>>
         THEN /\ frame' = Head(inbound)
              /\ inbound' = Tail(inbound)
              /\ received' = Append(received, Head(inbound))
              /\ conns' = ReadFrom(conns, StreamSocket)
              /\ pc' = "parse"
              /\ exc' = exc
         ELSE /\ pc' = "finally"
              /\ exc' = IF ending = "ok" THEN Exc("ConnectionClosedOK", "job.recv")
                        ELSE Exc("ConnectionClosedError", "job.recv")
              /\ UNCHANGED <<frame, inbound, received, conns>>
    /\ UNCHANGED <<tx_hash, websocket, tws, ending, parsed, context, request,
                   outcome, yielded>>

\* Mutant: a second read inside the loop body, so that every other frame is
\* taken off the connection without being yielded.
RecvTwice ==
    /\ pc = "recv"
    /\ IF inbound # <<>>
         THEN LET k == IF Len(inbound) >= 2 THEN 2 ELSE 1 IN
              /\ frame' = inbound[k]
              /\ inbound' = SubSeq(inbound, k + 1, Len(inbound))
              /\ received' = received \o SubSeq(inbound, 1, k)
              /\ conns' = [conns EXCEPT ![websocket].read = @ + k]
              /\ pc' = "parse"
              /\ exc' = exc
         ELSE /\ pc' = "finally"
              /\ exc' = IF ending = "ok" THEN exc
                        ELSE Exc("ConnectionClosedError", "job.recv")
              /\ UNCHANGED <<frame, inbound, received, conns>>
    /\ UNCHANGED <<tx_hash, websocket, tws, ending, parsed, context, request,
                   outcome, yielded>>

\* Line 231, `for message in websocket`: the next frame, the normal end of the
\* iteration when the peer closed normally, or ConnectionClosedError.
Recv ==
    /\ pc = "recv"
    /\ IF inbound # <<>>
         THEN /\ frame' = Head(inbound)
              /\ inbound' = Tail(inbound)
              /\ received' = Append(received, Head(inbound))
              /\ conns' = ReadFrom(conns, StreamSocket)
              /\ pc' = "parse"
              /\ exc' = exc
         ELSE /\ pc' = "finally"
              /\ exc' = IF ending = "ok" THEN exc
                        ELSE Exc("ConnectionClosedError", "job.recv")
              /\ UNCHANGED <<frame, inbound, received, conns>>
    /\ UNCHANGED <<tx_hash, websocket, tws, ending, parsed, context, request,
                   outcome, yielded>>

\* Lines 232-235: the frame is validated and its pair yielded; the generator is
\* suspended at the yield.
ParseAndYield ==
    /\ pc = "parse"
    /\ IF ActionValid(frame)
         THEN /\ parsed' = ParseAction(frame)
              /\ yielded' = Append(yielded, YieldOf(ParseAction(frame)))
              /\ pc' = "yield"
              /\ outcome' = Item
              /\ request' = "none"
              /\ exc' = exc
         ELSE /\ exc' = Exc("ValidationError", "job.parse")
              /\ pc' = "finally"
              /\ UNCHANGED <<parsed, yielded, outcome, request>>
    /\ frame' = NoFrame
    /\ UNCHANGED <<tx_hash, conns, websocket, tws, inbound, ending, context,
                   received>>

\* Lines 236-237, after the consumer's next(): return on "job-completed", else
\* the loop goes on.
Resume ==
    /\ pc = "resume"
    /\ pc' = IF IsCompleted(parsed) THEN "finally" ELSE "recv"
    /\ UNCHANGED <<tx_hash, conns, websocket, tws, inbound, ending, frame, parsed,
                   exc, context, request, outcome, received, yielded>>

\* Mutant: terminate() is called after the loop only, not in a finally clause, so
\* an exception leaves without it.
FinallyOnNormalEndOnly ==
    /\ pc = "finally"
    /\ pc' = IF exc = NoExc THEN "termConnect" ELSE "withExit"
    /\ UNCHANGED <<tx_hash, conns, websocket, tws, inbound, ending, frame, parsed,
                   exc, context, request, outcome, received, yielded>>

\* Mutant: `except Exception` in place of `finally`: GeneratorExit and a normal
\* end leave without terminate().
FinallyOnErrorOnly ==
    /\ pc = "finally"
    /\ pc' = IF exc.type \in {"none", "GeneratorExit"} THEN "withExit" ELSE "termConnect"
    /\ UNCHANGED <<tx_hash, conns, websocket, tws, inbound, ending, frame, parsed,
                   exc, context, request, outcome, received, yielded>>

\* Lines 238-239: the finally clause calls self.terminate().
Finally ==
    /\ pc = "finally"
    /\ pc' = "termConnect"
    /\ UNCHANGED <<tx_hash, conns, websocket, tws, inbound, ending, frame, parsed,
                   exc, context, request, outcome, received, yielded>>

(* ------------------------------------------------------------------ *)
(* base.py: NuNetAdapter.terminate.                                     *)
(* ------------------------------------------------------------------ *)

\* An exception raised inside the finally clause replaces the one in flight,
\* which becomes its __context__.
Raised(e) ==
    /\ exc' = e
    /\ context' = exc

\* Line 243: terminate() opens its own connection.
TermConnect ==
    /\ pc = "termConnect"
    /\ \E ok \in BOOLEAN :
         IF ok
           THEN /\ conns' = Opened(conns)
                /\ tws' = Len(conns) + 1
                /\ pc' = "termSend"
                /\ UNCHANGED <<exc, context>>
           ELSE /\ Raised(Exc("ConnectError", "terminate.connect"))
                /\ pc' = "withExit"
                /\ UNCHANGED <<conns, tws>>
    /\ UNCHANGED <<tx_hash, websocket, inbound, ending, frame, parsed, request,
                   outcome, received, yielded>>

\* Lines 244-250: the terminate-job message.
TermSend ==
    /\ pc = "termSend"
    /\ \E ok \in BOOLEAN :
         IF ok
           THEN /\ conns' = Sent(conns, TermSocket, TerminateMessage)
                /\ UNCHANGED <<exc, context>>
           ELSE /\ Raised(Exc("ConnectionClosed", "terminate.send"))
                /\ conns' = conns
    /\ pc' = "termExit"
    /\ UNCHANGED <<tx_hash, websocket, tws, inbound, ending, frame, parsed, request,
                   outcome, received, yielded>>

\* Leaving terminate()'s with block.
TermExit ==
    /\ pc = "termExit"
    /\ conns' = Closed(conns, TermSocket)
    /\ pc' = "withExit"
    /\ UNCHANGED <<tx_hash, websocket, tws, inbound, ending, frame, parsed, exc,
                   context, request, outcome, received, yielded>>

\* What the consumer's next() or close() gets when the generator's frame exits.
ExitOutcome(e) ==
    CASE e = NoExc -> StopIteration
      [] e.type = "GeneratorExit" -> CloseReturned
      [] OTHER -> e

\* Leaving job()'s with block: the streaming connection is closed and the
\* generator is finished.
WithExit ==
    /\ pc = "withExit"
    /\ conns' = Closed(conns, StreamSocket)
    /\ pc' = "done"
    /\ outcome' = ExitOutcome(exc)
    /\ UNCHANGED <<tx_hash, websocket, tws, inbound, ending, frame, parsed, exc,
                   context, request, received, yielded>>

\* The steps the generator takes on its own between two consumer requests.
GenStep ==
    \/ Connect
    \/ SendFund
    \/ Recv
    \/ ParseAndYield
    \/ Resume
    \/ Finally
    \/ TermConnect
    \/ TermSend
    \/ TermExit
    \/ WithExit

(* ------------------------------------------------------------------ *)
(* Text, hexadecimal text and bytes.                                    *)
(* ------------------------------------------------------------------ *)

\* Text is a sequence of code points, bytes a sequence of 0..255, hexadecimal
\* text a sequence of characters: 0..15 stand for the digits 0-9a-f, NotHex for
\* any other character.
NotHex == 16

\* bytes(v, encoding="utf-8") for code points below 0x800.
Utf8Char(c) == IF c < 128 THEN <<c>> ELSE <<192 + (c \div 64), 128 + (c % 64)>>

RECURSIVE Utf8(_)
Utf8(t) == IF t = <<>> THEN <<>> ELSE Utf8Char(Head(t)) \o Utf8(Tail(t))

\* Whether bytes.fromhex(h) succeeds.
IsHex(h) == Len(h) % 2 = 0 /\ \A i \in 1..Len(h) : h[i] < NotHex

\* bytes.fromhex(h).
FromHex(h) == [i \in 1..(Len(h) \div 2) |-> 16 * h[2 * i - 1] + h[2 * i]]

\* str() of a key hash: its bytes in hexadecimal.
RECURSIVE ToHex(_)
ToHex(b) == IF b = <<>> THEN <<>> ELSE <<Head(b) \div 16, Head(b) % 16>> \o ToHex(Tail(b))

(* ------------------------------------------------------------------ *)
(* pycardano: addresses.                                                *)
(* ------------------------------------------------------------------ *)

\* A bech32 address text: the payment key hash it encodes and whether its
\* checksum is right.
Bech32(hash, good) == [bech32 |-> hash, checksum |-> good]

\* Whether Address.decode accepts the text.
Decodes(a) == a.checksum

\* Address.decode(a).payment_part.
PaymentPart(a) == a.bech32

\* self.address of the adapter, derived from the seed in __init__.
OwnAddress == Bech32(<<171, 1>>, TRUE)

\* The contract's address the payment goes to.
SCRIPT_ADDRESS == Bech32(<<126, 98>>, TRUE)

(* ------------------------------------------------------------------ *)
(* models.py: JobConfig.                                                *)
(* ------------------------------------------------------------------ *)

\* The body of a match response: a JSON object with these four keys, or no JSON.
Body(a, p, o, g) ==
    [json |-> TRUE, compute_provider_addr |-> a, estimated_price |-> p,
     oracle_message |-> o, signature |-> g]
NoJson == [json |-> FALSE]

\* validate_oracle (mode="before"): the isinstance test of line 182.
OracleTypeOk(v) == v.t \in {"str", "bytes", "ByteString"}

\* validate_oracle, lines 188-193: bytes become a ByteString of the same
\* bytes, text the ByteString of its UTF-8 encoding, a ByteString is kept.
validate_oracle(v) == IF v.t = "str" THEN Utf8(v.s) ELSE v.b

\* Whether the other three fields validate: two str and a float.
ConfigFieldsOk(b) ==
    /\ b.compute_provider_addr.t = "str"
    /\ b.estimated_price.t = "num"
    /\ b.signature.t = "str"

\* JobConfig.model_validate(body): the JobConfig, or the exception raised. The
\* validator runs on a value that is given, and the TypeError it raises is not
\* one of the exceptions pydantic turns into a ValidationError.
JobConfigOf(b) ==
    IF b.oracle_message # Absent /\ ~OracleTypeOk(b.oracle_message)
      THEN [ok |-> FALSE, err |-> Exc("TypeError", "validate_oracle")]
    ELSE IF b.oracle_message = Absent \/ ~ConfigFieldsOk(b)
      THEN [ok |-> FALSE, err |-> Exc("ValidationError", "JobConfig")]
    ELSE [ok |-> TRUE,
          value |-> [compute_provider_addr |-> b.compute_provider_addr.s,
                     estimated_price |-> b.estimated_price.n,
                     oracle_message |-> validate_oracle(b.oracle_message),
                     signature |-> b.signature.s]]

\* No JobConfig.
NoConfig == [none |-> TRUE]

(* ------------------------------------------------------------------ *)
(* Python's float and int arithmetic, for values that are not negative. *)
(* ------------------------------------------------------------------ *)

\* A Python int of any size is the sequence of its digits to the base Limb =
\* 2^LimbBits, the lowest first and the highest not 0; zero is the empty
\* sequence.
LimbBits == 15
Limb == 32768

RECURSIVE Big(_)
Big(n) == IF n = 0 THEN <<>> ELSE <<n % Limb>> \o Big(n \div Limb)

RECURSIVE ToInt(_)
ToInt(a) == IF a = <<>> THEN 0 ELSE Head(a) + Limb * ToInt(Tail(a))

RECURSIVE Trim(_)
Trim(a) ==
    IF a # <<>> /\ a[Len(a)] = 0 THEN Trim(SubSeq(a, 1, Len(a) - 1)) ELSE a

RECURSIVE Pow2(_)
Pow2(k) == IF k = 0 THEN 1 ELSE 2 * Pow2(k - 1)

\* a + b + c for a carry c.
RECURSIVE AddC(_, _, _)
AddC(a, b, c) ==
    IF a = <<>> /\ b = <<>>
      THEN Big(c)
      ELSE LET x == IF a = <<>> THEN 0 ELSE Head(a)
               y == IF b = <<>> THEN 0 ELSE Head(b)
               t == x + y + c
           IN <<t % Limb>> \o AddC(IF a = <<>> THEN <<>> ELSE Tail(a),
                                   IF b = <<>> THEN <<>> ELSE Tail(b),
                                   t \div Limb)

\* a * n + c for n and c below Limb.
RECURSIVE MulC(_, _, _)
MulC(a, n, c) ==
    IF a = <<>>
      THEN Big(c)
      ELSE LET t == Head(a) * n + c
           IN <<t % Limb>> \o MulC(Tail(a), n, t \div Limb)

\* The digits of (r * Limb^Len(a) + a) \div n for n below Limb and r below n.
RECURSIVE DivR(_, _, _)
DivR(a, n, r) ==
    IF a = <<>>
      THEN <<>>
      ELSE LET t == r * Limb + a[Len(a)]
           IN Append(DivR(SubSeq(a, 1, Len(a) - 1), n, t % n), t \div n)

\* a + b, a * b, a * 2^k and a \div 2^k.
BigAdd(a, b) == Trim(AddC(a, b, 0))
RECURSIVE BigMul(_, _)
BigMul(a, b) ==
    IF a = <<>> \/ b = <<>> THEN <<>>
    ELSE BigAdd(Trim(MulC(a, Head(b), 0)),
                LET hi == BigMul(a, Tail(b)) IN IF hi = <<>> THEN <<>> ELSE <<0>> \o hi)
ShiftL(a, k) ==
    IF a = <<>> THEN <<>>
    ELSE [i \in 1..(k \div LimbBits) |-> 0] \o Trim(MulC(a, Pow2(k % LimbBits), 0))
ShiftR(a, k) ==
    IF k \div LimbBits >= Len(a) THEN <<>>
    ELSE Trim(DivR(SubSeq(a, k \div LimbBits + 1, Len(a)), Pow2(k % LimbBits), 0))

\* int.bit_length and whether the int is odd.
RECURSIVE IntBits(_)
IntBits(n) == IF n = 0 THEN 0 ELSE 1 + IntBits(n \div 2)
BitLen(a) == IF a = <<>> THEN 0 ELSE LimbBits * (Len(a) - 1) + IntBits(a[Len(a)])
Odd(a) == a # <<>> /\ a[1] % 2 = 1

\* The digits of a float's significand (sys.float_info.mant_dig).
MantDig == 53

\* A float that is not negative is [m, e] for m * 2^e with m of at most MantDig
\* binary digits. The float nearest to m * 2^e for m of any size, ties going
\* to the even significand (the exponent's range is never left by the prices
\* here).
RoundToFloat(m, e) ==
    IF BitLen(m) <= MantDig
      THEN [m |-> m, e |-> e]
      ELSE LET k == BitLen(m) - MantDig
               kept == ShiftR(m, k)
               half == Odd(ShiftR(m, k - 1))
               sticky == ShiftL(ShiftR(m, k - 1), k - 1) # m
               up == half /\ (sticky \/ Odd(kept))
           IN [m |-> IF up THEN BigAdd(kept, <<1>>) ELSE kept, e |-> e + k]

\* float(n) for an int below 2^53, x * y and x + y on floats, and int(x).
FloatOfInt(n) == [m |-> Big(n), e |-> 0]
FloatMul(x, y) == RoundToFloat(BigMul(x.m, y.m), x.e + y.e)
FloatAdd(x, y) ==
    LET e == IF x.e < y.e THEN x.e ELSE y.e
    IN RoundToFloat(BigAdd(ShiftL(x.m, x.e - e), ShiftL(y.m, y.e - e)), e)
IntOfFloat(x) == ToInt(IF x.e >= 0 THEN ShiftL(x.m, x.e) ELSE ShiftR(x.m, 0 - x.e))

\* The float written 0x<h>p<e> by float.hex, the point taken out: h the
\* hexadecimal digits of the significand, the highest first.
RECURSIVE HexDigits(_)
HexDigits(h) ==
    IF h = <<>> THEN <<>>
    ELSE Trim(MulC(HexDigits(SubSeq(h, 1, Len(h) - 1)), 16, h[Len(h)]))
FloatHex(h, e) == [m |-> HexDigits(h), e |-> e]

(* ------------------------------------------------------------------ *)
(* The match service.                                                   *)
(* ------------------------------------------------------------------ *)

\* estimated_price is a float; Price(m, e) is the float m / 2^e for a small m.
Price(m, e) == [m |-> Big(m), e |-> 0 - e]

ProviderA == Bech32(<<17, 34>>, TRUE)
ProviderB == Bech32(<<51, 68>>, TRUE)
BadProvider == Bech32(<<17, 34>>, FALSE)

\* "ab12", "cd", the odd-length "ab1" and "g1".
SigAB12 == <<10, 11, 1, 2>>
SigCD == <<12, 13>>
SigOdd == <<10, 11, 1>>
SigG1 == <<NotHex, 1>>

\* "abc" and "é".
TextABC == <<97, 98, 99>>
TextEAcute == <<233>>

GoodBodyA == Body(JStr(ProviderA), JNum(Price(1, 1)), JStr(TextABC), JStr(SigAB12))
GoodBodyB == Body(JStr(ProviderB), JNum(Price(0, 0)), JStr(TextEAcute), JStr(SigCD))

\* The responses of the match endpoint: status, body and raw text.
Response(st, b) == [status |-> st, body |-> b, text |-> [raw |-> b]]

Responses ==
    { Response(200, GoodBodyA),
      Response(200, GoodBodyB),
      Response(200, Body(JStr(BadProvider), JNum(Price(1, 1)), JStr(TextABC), JStr(SigAB12))),
      Response(200, Body(JStr(ProviderA), JNum(Price(1, 1)), JStr(TextABC), JStr(SigOdd))),
      Response(200, Body(JStr(ProviderA), JNum(Price(1, 1)), JStr(TextABC), JStr(SigG1))),
      Response(200, Body(JStr(ProviderA), JNum(Price(1, 1)), JNum(7), JStr(SigAB12))),
      Response(200, Body(JStr(ProviderA), JNull, JStr(TextABC), JStr(SigAB12))),
      Response(201, GoodBodyA),
      Response(500, NoJson) }

\* requests.codes.ok
HttpOk == 200

\* Nothing has been answered yet.
NoResponse == [status |-> 0, none |-> TRUE]

(* ------------------------------------------------------------------ *)
(* models.py: JobConstraints, its presets, JobRequest.                  *)
(* ------------------------------------------------------------------ *)

JobConstraints(cpu, ram, vram, power, complexity, time) ==
    [CPU |-> cpu, RAM |-> ram, VRAM |-> vram, power |-> power,
     complexity |-> complexity, time |-> time]

CONSTRAINTS_LOW == JobConstraints(500, 2000, 2000, 170, "Low", 1)
CONSTRAINTS_MODERATE == JobConstraints(1500, 8000, 8000, 220, "Moderate", 1)
CONSTRAINTS_HIGH == JobConstraints(2500, 16000, 24000, 350, "High", 1)

\* The three module-level objects, by name.
PresetNames == {"CONSTRAINTS_LOW", "CONSTRAINTS_MODERATE", "CONSTRAINTS_HIGH"}
ModulePresets ==
    [n \in PresetNames |->
       CASE n = "CONSTRAINTS_LOW" -> CONSTRAINTS_LOW
         [] n = "CONSTRAINTS_MODERATE" -> CONSTRAINTS_MODERATE
         [] OTHER -> CONSTRAINTS_HIGH]

\* JobRequest(..., constraints=<preset>): pydantic keeps a model instance it is
\* given, so the request's constraints are the preset object itself, held
\* here by its name.
JobRequest(preset) ==
    [address_user |-> OwnAddress, max_ntx |-> 10, blockchain |-> "Cardano",
     service_type |-> "ml-training-cpu", constraints |-> preset]
NoRequest == [none |-> TRUE]

\* Mutant: serialising the request normalises its constraints in place.
AfterDumpInPlace(objects, req) ==
    [objects EXCEPT ![req.constraints].time = 0]

\* The module-level objects after job_request.model_dump_json() (line 117):
\* the dump only reads.
AfterDump(objects, req) == objects


(* ------------------------------------------------------------------ *)
(* base.py: NuNetAdapter.request_service.                               *)
(* ------------------------------------------------------------------ *)

\* Lines 122-125 on the response of the POST: the JobConfig returned or the
\* exception raised.
request_service(resp) ==
    IF resp.status # HttpOk
      THEN [ok |-> FALSE, err |-> [type |-> "HTTPError", at |-> "request_service",
                                   text |-> resp.text]]
    ELSE IF ~resp.body.json
      THEN [ok |-> FALSE, err |-> Exc("JSONDecodeError", "request_service")]
    ELSE JobConfigOf(resp.body)

(* ------------------------------------------------------------------ *)
(* base.py: NuNetAdapter.cost and NuNetAdapter.pay.                     *)
(* ------------------------------------------------------------------ *)

BaseFee == 2000000
PriceFactor == 10000000
NtxAmount == 10
SlotDelay == 86400
DatumTimeout == 10
DatumNtx == 1

\* Lines 139-148: the Value, [lovelace, 10 of the token]; the lovelace are
\* int(2000000 + 10**7 * estimated_price), the product and the sum being
\* taken in float arithmetic.
cost(cfg) ==
    [coin |-> IntOfFloat(FloatAdd(FloatOfInt(BaseFee),
                                  FloatMul(FloatOfInt(PriceFactor), cfg.estimated_price))),
     ntx |-> NtxAmount]

\* Lines 164-174: the datum; its arguments are evaluated in this order.
ContractDatum(cfg, slot) ==
    [address |-> FromHex(ToHex(PaymentPart(OwnAddress))),
     provider_address |-> FromHex(ToHex(PaymentPart(cfg.compute_provider_addr))),
     signature |-> FromHex(cfg.signature),
     oracle_message |-> cfg.oracle_message,
     slot |-> slot + SlotDelay,
     timeout |-> DatumTimeout,
     ntx |-> DatumNtx]

\* CONSTR_ID of ContractDatum (line 41).
CONSTR_ID == 0

\* Mutant: the dataclass declares provider_address before address.
ToPlutusProviderFirst(d) ==
    [constr |-> CONSTR_ID,
     fields |-> <<d.provider_address, d.address, d.signature, d.oracle_message,
                  d.slot, d.timeout, d.ntx>>]

\* PlutusData's serialisation of the dataclass: the constructor tag and the
\* fields in the order the class declares them (lines 41-50).
ToPlutus(d) ==
    [constr |-> CONSTR_ID,
     fields |-> <<d.address, d.provider_address, d.signature, d.oracle_message,
                  d.slot, d.timeout, d.ntx>>]

\* Lines 176-199: the transaction built: one output to the contract, holding
\* the datum object and, once built, its serialisation.
Transaction(cfg, slot) ==
    [input_address |-> OwnAddress,
     output |-> [address |-> SCRIPT_ADDRESS, amount |-> cost(cfg),
                 datum |-> ContractDatum(cfg, slot),
                 datum_cbor |-> ToPlutus(ContractDatum(cfg, slot))],
     metadata_label |-> 674,
     signed_by |-> OwnAddress]

\* tx.id: the hash of the transaction, taken to be free of collisions.
TxId(tx) == [hash_of |-> tx]

\* Whether build_and_sign finds the inputs for the amount in what the payer
\* holds (the fee is left out).
Funded(w, amount) == w.coin >= amount.coin /\ w.ntx >= amount.ntx

\* Mutant: a rejected submission is tried once more.
SubmitWithRetry(accepted) == IF accepted THEN 1 ELSE 2

\* How often pay calls context.submit_tx once the transaction is built (line 201).
SubmitAttempts(accepted) == 1

\* pay(cfg) with the chain at slot `slot` (0 for a failing query), the payer
\* holding w and the ledger accepting the transaction or not: the identifier
\* returned or the exception raised, the transaction when one was accepted, and
\* the calls of submit_tx made.
pay(cfg, slot, w, accepted) ==
    IF ~Decodes(cfg.compute_provider_addr)
      THEN [ok |-> FALSE, err |-> Exc("DecodingException", "pay.provider_address"),
            submits |-> 0, sent |-> <<>>]
    ELSE IF ~IsHex(cfg.signature)
      THEN [ok |-> FALSE, err |-> Exc("ValueError", "pay.signature"),
            submits |-> 0, sent |-> <<>>]
    ELSE IF slot = 0
      THEN [ok |-> FALSE, err |-> Exc("ApiError", "pay.last_block_slot"),
            submits |-> 0, sent |-> <<>>]
    ELSE IF ~Funded(w, cost(cfg))
      THEN [ok |-> FALSE, err |-> Exc("UTxOSelectionException", "pay.build_and_sign"),
            submits |-> 0, sent |-> <<>>]
    ELSE IF ~accepted
      THEN [ok |-> FALSE, err |-> Exc("ApiError", "pay.submit_tx"),
            submits |-> SubmitAttempts(accepted), sent |-> <<>>]
    ELSE [ok |-> TRUE, value |-> TxId(Transaction(cfg, slot)),
          submits |-> SubmitAttempts(accepted), sent |-> <<Transaction(cfg, slot)>>]

(* ------------------------------------------------------------------ *)
(* example/simple_cpu.py.                                               *)
(* ------------------------------------------------------------------ *)

\* The slot the chain starts at, and the last slot it is followed to.
FirstSlot == 1000
MaxSlot == 1001

\* What context.last_block_slot gives pay: the chain's slot, or 0 for a query
\* that fails.
SlotQuery(ok) == IF ok THEN last_block_slot ELSE 0

\* The chain moves on by a slot.
Tick ==
    /\ last_block_slot < MaxSlot
    /\ last_block_slot' = last_block_slot + 1
    /\ UNCHANGED <<spc, job_config, txid, scriptErr, wallet, chain, submitCalls,
                   posts, matched, presets, job_request, response>>
    /\ UNCHANGED chanVars

\* What the payer may hold.
Wallets == {[coin |-> 100000000, ntx |-> 100], [coin |-> 3000000, ntx |-> 100]}

\* The script ends with an uncaught exception.
Abort(e) ==
    /\ scriptErr' = e
    /\ spc' = "exit"

\* Lines 24-25: adapter.peer_list().
ScriptPeers ==
    /\ spc = "peers"
    /\ \E ok \in BOOLEAN :
         IF ok THEN spc' = "build" /\ scriptErr' = scriptErr
               ELSE Abort(Exc("RequestException", "peer_list"))
    /\ UNCHANGED <<job_config, txid, wallet, chain, submitCalls, posts, matched>>
    /\ UNCHANGED <<presets, job_request, response, last_block_slot>>
    /\ UNCHANGED chanVars

\* Lines 39-45: the JobRequest is built from a preset; line 44 takes
\* CONSTRAINTS_LOW, and a caller may take any of the three.
ScriptBuild ==
    /\ spc = "build"
    /\ \E preset \in PresetNames : job_request' = JobRequest(preset)
    /\ spc' = "request"
    /\ UNCHANGED <<job_config, txid, scriptErr, wallet, chain, submitCalls, posts,
                   matched, presets, response, last_block_slot>>
    /\ UNCHANGED chanVars

\* Line 47: job_request = adapter.request_service(job_request=job_request).
ScriptRequest ==
    /\ spc = "request"
    /\ posts' = posts + 1
    /\ presets' = AfterDump(presets, job_request)
    /\ \/ \E resp \in Responses :
            LET r == request_service(resp) IN
              /\ response' = resp
              /\ IF r.ok
                   THEN /\ job_config' = r.value
                        /\ matched' = matched \cup {r.value}
                        /\ spc' = "pay"
                        /\ scriptErr' = scriptErr
                   ELSE /\ Abort(r.err)
                        /\ UNCHANGED <<job_config, matched>>
       \/ /\ Abort(Exc("RequestException", "request_service.post"))
          /\ UNCHANGED <<job_config, matched, response>>
    /\ UNCHANGED <<txid, wallet, chain, submitCalls, job_request, last_block_slot>>
    /\ UNCHANGED chanVars

\* Mutant: the script pays a JobConfig it built itself, not the one matched.
PayArgumentOwn ==
    [compute_provider_addr |-> ProviderB, estimated_price |-> Price(0, 0),
     oracle_message |-> <<1>>, signature |-> SigCD]

\* The JobConfig the script hands to pay (line 49).
PayArgument == job_config

\* Line 49: txid = adapter.pay(job_request).
ScriptPay ==
    /\ spc = "pay"
    /\ \E queried \in BOOLEAN, accepted \in BOOLEAN :
         LET r == pay(PayArgument, SlotQuery(queried), wallet, accepted) IN
           /\ submitCalls' = submitCalls + r.submits
           /\ chain' = chain \o r.sent
           /\ IF r.ok
                THEN /\ txid' = r.value
                     /\ spc' = "job"
                     /\ scriptErr' = scriptErr
                ELSE /\ Abort(r.err)
                     /\ txid' = txid
    /\ UNCHANGED <<job_config, wallet, posts, matched>>
    /\ UNCHANGED <<presets, job_request, response, last_block_slot>>
    /\ UNCHANGED chanVars

\* The identifier the script hands to job (line 51).
JobArgument == txid

\* Line 51: adapter.job(txid) makes the generator.
ScriptJob ==
    /\ spc = "job"
    /\ JobCall(JobArgument)
    /\ spc' = "iter"
    /\ UNCHANGED <<job_config, txid, scriptErr, wallet, chain, submitCalls, posts,
                   matched, presets, job_request, response, last_block_slot>>

\* Lines 51-52: the for loop asks for the next element until the generator ends.
ScriptIter ==
    /\ spc = "iter"
    /\ GenNext
    /\ UNCHANGED scriptVars

\* The for loop ends: with StopIteration the script is over, with an exception
\* it is aborted.
ScriptLoopEnd ==
    /\ spc = "iter"
    /\ pc = "done"
    /\ IF outcome = StopIteration
         THEN spc' = "exit" /\ scriptErr' = scriptErr
         ELSE Abort(outcome)
    /\ UNCHANGED <<job_config, txid, wallet, chain, submitCalls, posts, matched>>
    /\ UNCHANGED <<presets, job_request, response, last_block_slot>>
    /\ UNCHANGED chanVars

NoKwargs == [json |-> FALSE]
NotBuilt == [ok |-> FALSE, err |-> NoExc]
NoAmount == [none |-> TRUE]

\* Nothing is being constructed.
InitCall ==
    /\ kwargs = NoKwargs
    /\ built = NotBuilt
    /\ priced = NoAmount

InitLedger ==
    /\ job_config = NoConfig
    /\ txid = NoTx
    /\ scriptErr = NoExc
    /\ wallet \in Wallets
    /\ chain = <<>>
    /\ submitCalls = 0
    /\ posts = 0
    /\ matched = {}
    /\ presets = ModulePresets
    /\ job_request = NoRequest
    /\ response = NoResponse
    /\ last_block_slot = FirstSlot

\* The longest scripted sequence of inbound frames in the run of the script.
ScriptMsgs == 2

InitScript ==
    /\ InitChannelWith(ScriptMsgs)
    /\ InitLedger
    /\ InitCall
    /\ spc = "peers"

NextScript ==
    \/ ScriptPeers /\ UNCHANGED callVars
    \/ ScriptBuild /\ UNCHANGED callVars
    \/ ScriptRequest /\ UNCHANGED callVars
    \/ Tick /\ UNCHANGED callVars
    \/ ScriptPay /\ UNCHANGED callVars
    \/ ScriptJob /\ UNCHANGED callVars
    \/ ScriptIter /\ UNCHANGED callVars
    \/ GenStep /\ UNCHANGED <<scriptVars, callVars>>
    \/ ScriptLoopEnd /\ UNCHANGED callVars

SpecScript == InitScript /\ [][NextScript]_vars

(* ------------------------------------------------------------------ *)
(* A JobConfig constructed from given field values, then priced.        *)
(* ------------------------------------------------------------------ *)

\* b"abc", the bytes of "é" in UTF-8, and a byte that is no UTF-8 at all.
BytesABC == <<97, 98, 99>>
BytesEAcute == <<195, 169>>
BytesFF == <<255>>

\* The values given for oracle_message: text, bytes, a ByteString, a number,
\* a list, an object, None, and nothing.
OracleInputs ==
    { JStr(TextABC), JStr(TextEAcute), JStr(<<>>),
      PyBytes(BytesABC), PyBytes(BytesEAcute), PyBytes(BytesFF), PyBytes(<<>>),
      PyByteString(BytesABC),
      JNum(7), PyList, JObj("oracle"), JNull, Absent }

\* The values given for estimated_price: the floats 0.0, 0.5, 0.75, 0.009,
\* 0.1, 0.24999999999999997, 9.999999999999998e-08 and 3.3, and None.
PriceInputs ==
    { JNum(Price(0, 0)), JNum(Price(1, 1)), JNum(Price(3, 2)),
      JNum(FloatHex(<<1, 2, 6, 14, 9, 7, 8, 13, 4, 15, 13, 15, 3, 11>>, -59)),
      JNum(FloatHex(<<1, 9, 9, 9, 9, 9, 9, 9, 9, 9, 9, 9, 9, 10>>, -56)),
      JNum(FloatHex(<<1, 15, 15, 15, 15, 15, 15, 15, 15, 15, 15, 15, 15, 15>>, -55)),
      JNum(FloatHex(<<1, 10, 13, 7, 15, 2, 9, 10, 11, 12, 10, 15, 4, 7>>, -76)),
      JNum(FloatHex(<<1, 10, 6, 6, 6, 6, 6, 6, 6, 6, 6, 6, 6, 6>>, -51)),
      JNull }

ConfigInputs ==
    { Body(a, p, o, JStr(SigAB12)) :
        a \in {JStr(ProviderA), JNum(7)}, p \in PriceInputs, o \in OracleInputs }

\* JobConfig(**kwargs).
Construct ==
    /\ built = NotBuilt
    /\ built' = JobConfigOf(kwargs)
    /\ UNCHANGED <<kwargs, priced>>
    /\ UNCHANGED <<chanVars, scriptVars>>

\* adapter.cost(job_config) for the JobConfig constructed.
Cost ==
    /\ built.ok
    /\ priced = NoAmount
    /\ priced' = cost(built.value)
    /\ UNCHANGED <<kwargs, built>>
    /\ UNCHANGED <<chanVars, scriptVars>>

InitModels ==
    /\ InitChannelWith(0)
    /\ InitLedger
    /\ spc = "library"
    /\ kwargs \in ConfigInputs
    /\ built = NotBuilt
    /\ priced = NoAmount

NextModels ==
    \/ Construct
    \/ Cost

SpecModels == InitModels /\ [][NextModels]_vars

(* ------------------------------------------------------------------ *)
(* A monitoring call driven by any consumer.                            *)
(* ------------------------------------------------------------------ *)

Init ==
    /\ InitChannelWith(MaxMsgs)
    /\ InitLedger
    /\ InitCall
    /\ spc = "library"

Next ==
    \/ \E tx \in TxHashes : JobCall(tx) /\ UNCHANGED <<scriptVars, callVars>>
    \/ GenNext /\ UNCHANGED <<scriptVars, callVars>>
    \/ GenClose /\ UNCHANGED <<scriptVars, callVars>>
    \/ GenStep /\ UNCHANGED <<scriptVars, callVars>>

Spec == Init /\ [][Next]_vars

(* ------------------------------------------------------------------ *)
(* A monitoring call that receives one frame, drawn from every          *)
(* combination of action, message and stdout.                           *)
(* ------------------------------------------------------------------ *)

\* The frames of this specification: a status or completion event whose
\* message is missing, null, text, structured or a number and whose stdout is
\* missing, null, empty, text or a number.
StatusFrames ==
    { Text(a, m, o) :
        a \in {JStr("job-status"), JStr("job-completed")},
        m \in {Absent, JNull, JStr("msg"), JObj("result"), JNum(5)},
        o \in {Absent, JNull, JStr(""), JStr("out"), JNum(5)} }

InitFrames ==
    /\ pc = "idle"
    /\ tx_hash = NoTx
    /\ conns = <<>>
    /\ websocket = 0
    /\ tws = 0
    /\ inbound \in { <<f>> : f \in StatusFrames }
    /\ ending \in {"ok", "error"}
    /\ frame = NoFrame
    /\ parsed = NoAction
    /\ exc = NoExc
    /\ context = NoExc
    /\ request = "none"
    /\ outcome = Nothing
    /\ received = <<>>
    /\ yielded = <<>>
    /\ InitLedger
    /\ InitCall
    /\ spc = "library"

SpecFrames == InitFrames /\ [][Next]_vars

(* ------------------------------------------------------------------ *)
(* What the properties speak of.                                        *)
(* ------------------------------------------------------------------ *)

\* The two messages as the protocol states them.
TerminateJob == [action |-> "terminate-job"]
FundingOf(tx) ==
    [message |-> [transaction_status |-> "success", transaction_type |-> "fund",
                  tx_hash |-> tx],
     action |-> "send-status"]

\* The places (connection, position) where message m went out.
SendsOf(m) ==
    { ci \in (1..Len(conns)) \X (1..(MaxMsgs + 2)) :
        ci[2] <= Len(conns[ci[1]].sent) /\ conns[ci[1]].sent[ci[2]] = m }

TermCount == Cardinality(SendsOf(TerminateJob))
FundCount == Cardinality(SendsOf(FundingOf(tx_hash)))

\* terminate() raised: its connection did not open, or its send failed.
CleanupFailed == exc.at \in {"terminate.connect", "terminate.send"}

\* The funding confirmation's send raised.
FundSendFailed == exc.at = "job.send" \/ context.at = "job.send"

\* Everything the peer delivers on the streaming connection, read or not.
Script == received \o inbound

\* A frame that is a status event: JSON with a text action, a message that is
\* text, structured or null, and a stdout that is text or null.
WellFormed(f) ==
    /\ f.json
    /\ f.action.t = "str"
    /\ f.message.t \in {"str", "obj", "null", "absent"}
    /\ f.stdout.t \in {"str", "null", "absent"}

\* The pair (action, payload) of a well-formed frame.
PayloadOf(v) ==
    CASE v.t = "str" -> [py |-> "str", s |-> v.s]
      [] v.t = "obj" -> [py |-> "dict", k |-> v.k]
      [] OTHER -> [py |-> "None"]
PairOf(f) ==
    <<f.action.s, IF f.stdout.t = "str" THEN PayloadOf(f.stdout) ELSE PayloadOf(f.message)>>

\* Script[n] is the first "job-completed" and all frames up to it are well-formed.
FirstCompleted(n) ==
    /\ n \in 1..Len(Script)
    /\ \A i \in 1..n : WellFormed(Script[i])
    /\ Script[n].action.s = "job-completed"
    /\ \A i \in 1..(n - 1) : Script[i].action.s # "job-completed"

\* The body of job() has exited.
Exited == pc = "done"

(* ------------------------------------------------------------------ *)
(* C1                                                                   *)
(* ------------------------------------------------------------------ *)

\* C1 as stated: whenever the body of a started monitoring call has exited, by
\* whatever path, exactly one terminate-job message was sent.
C1_ExactlyOneTerminateOnEveryExit == Exited => TermCount = 1

\* C1 amended: never more than one terminate-job message is sent, and when the
\* call has exited exactly one was sent if and only if the streaming connection
\* had opened and terminate() neither failed to open its connection nor failed
\* to send; otherwise none was sent.
C1_TerminateOnceUnlessConnectOrCleanupFails ==
    /\ TermCount <= 1
    /\ Exited => (TermCount = 1 <=> (websocket # 0 /\ ~CleanupFailed))

\* An error exit (a malformed frame) after which one terminate-job went out.
C1_Witness == Exited /\ exc.type = "ValidationError" /\ TermCount = 1

(* ------------------------------------------------------------------ *)
(* C2                                                                   *)
(* ------------------------------------------------------------------ *)

\* C2 as stated: when the frames up to the first "job-completed", the n-th, are
\* well-formed and a consumer that only ever asks for the next element has got
\* to the end, it was given exactly the n pairs in order, nothing after the
\* n-th frame was read, the sequence ended normally and one terminate-job was sent.
C2_CompletedRunEndsNormally ==
    \A n \in 1..Len(Script) :
        (FirstCompleted(n) /\ Exited /\ request = "next" /\ Len(received) = n)
        => /\ yielded = [i \in 1..n |-> PairOf(Script[i])]
           /\ outcome = StopIteration
           /\ TermCount = 1

\* C2 amended: the pairs yielded are always those of the first frames, in order,
\* and nothing beyond the first "job-completed" is ever read or yielded; at the
\* end the consumer has the n pairs, and the sequence ends normally with
\* one terminate-job sent unless terminate() failed, in which case the request
\* after the n-th pair raises terminate()'s error and no terminate-job was sent.
C2_CompletedRunEndsNormallyUnlessCleanupFails ==
    \A n \in 1..Len(Script) :
        FirstCompleted(n)
        => /\ Len(received) <= n
           /\ Len(yielded) <= Len(received)
           /\ \A i \in 1..Len(yielded) : yielded[i] = PairOf(Script[i])
           /\ (Exited /\ request = "next" /\ Len(received) = n)
              => /\ Len(yielded) = n
                 /\ IF CleanupFailed
                      THEN outcome = exc /\ TermCount = 0
                      ELSE outcome = StopIteration /\ TermCount = 1

\* A run that ended normally on the second frame, with a third never read.
C2_Witness ==
    /\ Exited
    /\ request = "next"
    /\ FirstCompleted(2)
    /\ Len(yielded) = 2
    /\ inbound # <<>>
    /\ outcome = StopIteration
    /\ TermCount = 1

(* ------------------------------------------------------------------ *)
(* C3                                                                   *)
(* ------------------------------------------------------------------ *)

\* C3 as stated: when the consumer stopped after one or more events, none of
\* them "job-completed", and the call has exited, exactly one terminate-job
\* message was sent.
C3_StopSendsOneTerminate ==
    (Exited /\ request = "close" /\ Len(yielded) >= 1) => TermCount = 1

\* C3 amended: after such a stop exactly one terminate-job message is sent
\* unless terminate() fails to open its connection or to send, and then none
\* is; a terminate-job message goes out while the streaming connection is still
\* open; and nothing is received or yielded after the stop.
C3_StopCleansUp ==
    /\ []((Exited /\ request = "close" /\ Len(yielded) >= 1)
            => (TermCount <= 1 /\ (TermCount = 1 <=> ~CleanupFailed)))
    /\ [][TermCount' > TermCount
            => (conns[websocket].open /\ conns'[websocket].open)]_vars
    /\ [][request = "close" => (received' = received /\ yielded' = yielded)]_vars

\* The consumer stopped after the second event, a frame was still to come, and
\* one terminate-job went out.
C3_Witness ==
    /\ Exited
    /\ request = "close"
    /\ Len(yielded) = 2
    /\ inbound # <<>>
    /\ TermCount = 1

(* ------------------------------------------------------------------ *)
(* C4                                                                   *)
(* ------------------------------------------------------------------ *)

\* C4: when a frame that is no status event was received and the call has
\* exited, the consumer got the parse error, the frame was not yielded, it was
\* the last frame read, and one terminate-job message was sent.
C4_MalformedFrameFailsWithParseError ==
    (Exited /\ received # <<>> /\ ~WellFormed(received[Len(received)]))
    => /\ outcome = [type |-> "ValidationError", at |-> "job.parse"]
       /\ Len(yielded) = Len(received) - 1
       /\ TermCount = 1

(* ------------------------------------------------------------------ *)
(* C5                                                                   *)
(* ------------------------------------------------------------------ *)

\* C5: when an error was in flight as terminate() failed, what the caller gets
\* from the call is that first error.
C5_CleanupDoesNotMaskPrimaryError ==
    (Exited /\ CleanupFailed /\ context.type \notin {"none", "GeneratorExit"})
    => outcome = context

(* ------------------------------------------------------------------ *)
(* C6                                                                   *)
(* ------------------------------------------------------------------ *)

\* C6: the connection of job() and that of terminate() are two connections;
\* terminate-job goes out on terminate()'s only, the funding confirmation and
\* every read use job()'s only; no third connection is opened, two were opened
\* whenever terminate-job was sent, and every connection opened is closed once
\* the call has exited.
C6_TwoConnectionsNeverConflated ==
    /\ Len(conns) <= 2
    /\ (websocket # 0 /\ tws # 0) => websocket # tws
    /\ \A ci \in SendsOf(TerminateJob) : ci[1] = tws /\ ci[1] # websocket
    /\ \A ci \in SendsOf(FundingOf(tx_hash)) : ci[1] = websocket
    /\ \A c \in 1..Len(conns) :
         /\ conns[c].read = (IF c = websocket THEN Len(received) ELSE 0)
         /\ Exited => ~conns[c].open
    /\ TermCount >= 1 => Len(conns) = 2

\* The call has exited after frames were read and terminate-job was sent.
C6_Witness ==
    /\ Exited
    /\ Len(received) >= 2
    /\ FundCount = 1
    /\ TermCount = 1

(* ------------------------------------------------------------------ *)
(* C7                                                                   *)
(* ------------------------------------------------------------------ *)

\* C7 as stated: in every call whose streaming connection opened, exactly one
\* funding confirmation has been sent by the time the call has exited.
C7_FundingSentInEveryOpenedCall == (Exited /\ websocket # 0) => FundCount = 1

\* C7 amended: all that is ever sent on the streaming connection is one funding
\* confirmation naming the identifier given to job(), and it is sent nowhere
\* else; it has been sent before any frame is received or yielded; when the
\* call has exited it was sent exactly once unless that send itself failed, and
\* then nothing was received or yielded.
C7_FundingSentOnceFirstUnlessSendFails ==
    /\ websocket # 0 => conns[websocket].sent \in {<<>>, <<FundingOf(tx_hash)>>}
    /\ \A ci \in SendsOf(FundingOf(tx_hash)) : ci[1] = websocket
    /\ (received # <<>> \/ yielded # <<>> \/ pc \in {"recv", "parse", "yield", "resume"})
          => FundCount = 1
    /\ (Exited /\ websocket # 0) => (FundCount = 1 <=> ~FundSendFailed)
    /\ FundSendFailed => (received = <<>> /\ yielded = <<>>)

\* The funding confirmation for the second identifier went out and a frame
\* was then received.
C7_Witness ==
    /\ tx_hash = [id |-> "tx2"]
    /\ FundCount = 1
    /\ Len(received) >= 1

(* ------------------------------------------------------------------ *)
(* C8                                                                   *)
(* ------------------------------------------------------------------ *)

\* C8: the pairs yielded are those of the frames received, in the order
\* received; at most one frame is received and not yet yielded; and a frame is
\* received only while the consumer's request for the next element is pending
\* and everything received before has been yielded.
C8_OrderAndOneInFlight ==
    /\ [](/\ Len(yielded) <= Len(received)
          /\ Len(received) - Len(yielded) <= 1
          /\ \A i \in 1..Len(yielded) : yielded[i] = PairOf(received[i]))
    /\ [][received' # received
            => (request = "next" /\ Len(yielded) = Len(received))]_vars

\* Three frames were received and yielded one after the other.
C8_Witness == Len(received) = 3 /\ Len(yielded) = 3

(* ------------------------------------------------------------------ *)
(* C9                                                                   *)
(* ------------------------------------------------------------------ *)

\* The datum of transaction t carries the provider, signature and oracle
\* message of JobConfig cfg.
References(t, cfg) ==
    /\ cfg.compute_provider_addr.checksum
    /\ t.output.datum.provider_address = cfg.compute_provider_addr.bech32
    /\ ToHex(t.output.datum.signature) = cfg.signature
    /\ t.output.datum.oracle_message = cfg.oracle_message

PayFailedBeforeSubmit ==
    scriptErr.at \in {"pay.provider_address", "pay.signature",
                      "pay.last_block_slot", "pay.build_and_sign"}

\* 2000000 + floor(10000000 * p) in exact arithmetic, for a price p = m * 2^e.
ExactLovelace(p) ==
    2000000 + ToInt(IF p.e >= 0 THEN ShiftL(BigMul(p.m, Big(10000000)), p.e)
                    ELSE ShiftR(BigMul(p.m, Big(10000000)), 0 - p.e))

\* C10: the script's one call of pay calls submit_tx at most once and puts at
\* most one transaction on the ledger; an identifier is returned only for the
\* transaction accepted; a malformed provider address and insufficient funds
\* fail before anything is submitted, a rejected submission fails after the one
\* call, and each failure ends the script with its error, without an
\* identifier and without a monitoring call.
C10_PayIsOneAttempt ==
    /\ submitCalls <= 1
    /\ Len(chain) <= submitCalls
    /\ txid # NoTx => (Len(chain) = 1 /\ txid = [hash_of |-> chain[1]])
    /\ PayFailedBeforeSubmit => (submitCalls = 0 /\ chain = <<>>)
    /\ scriptErr.at = "pay.submit_tx" => (submitCalls = 1 /\ chain = <<>>)
    /\ (PayFailedBeforeSubmit \/ scriptErr.at = "pay.submit_tx")
         => (txid = NoTx /\ spc = "exit" /\ pc = "idle")
    /\ (spc \notin {"peers", "build", "request", "pay"} /\ job_config # NoConfig)
         => /\ ~job_config.compute_provider_addr.checksum
                 => scriptErr.at = "pay.provider_address"
            /\ (scriptErr.at = "pay.build_and_sign")
                 => wallet.coin < ExactLovelace(job_config.estimated_price)

\* The ledger rejected the one submission.
C10_Witness == scriptErr.at = "pay.submit_tx" /\ submitCalls = 1 /\ chain = <<>>

(* ------------------------------------------------------------------ *)
(* C17                                                                  *)
(* ------------------------------------------------------------------ *)

\* terminate() was run: its connection was opened or failed to open.
CleanupRan == tws # 0 \/ exc.at = "terminate.connect"

\* C17: when the streaming connection fails to open the call is over with that
\* connection error, no connection was ever opened and nothing was sent,
\* received or yielded; when the funding confirmation's send fails on the
\* opened connection, terminate() is run, one terminate-job going out unless
\* terminate() itself fails.
C17_ConnectFailureSendsNothing ==
    /\ exc.at = "job.connect"
         => /\ pc = "done"
            /\ outcome = [type |-> "ConnectError", at |-> "job.connect"]
            /\ conns = <<>>
            /\ websocket = 0 /\ tws = 0
            /\ received = <<>> /\ yielded = <<>>
    /\ (pc = "done" /\ conns = <<>>) => exc.at = "job.connect"
    /\ (Exited /\ FundSendFailed)
         => /\ CleanupRan
            /\ TermCount = 1 <=> ~CleanupFailed
            /\ ~CleanupFailed => outcome = [type |-> "ConnectionClosed", at |-> "job.send"]

\* The streaming connection failed to open while the peer had frames to send.
C17_Witness == Exited /\ exc.at = "job.connect" /\ inbound # <<>>

(* ------------------------------------------------------------------ *)
(* C18                                                                  *)
(* ------------------------------------------------------------------ *)

\* The peer closed normally after frames that were all status events, none of
\* them "job-completed", and a consumer that only asked for the next element
\* has got to the end.
PeerClosedEarly ==
    /\ Exited
    /\ request = "next"
    /\ FundCount = 1
    /\ inbound = <<>>
    /\ ending = "ok"
    /\ \A i \in 1..Len(received) :
         WellFormed(received[i]) /\ received[i].action.s # "job-completed"

\* C18 as stated: after the peer's normal close before any "job-completed"
\* the sequence has ended without an error, every frame received was yielded
\* and exactly one terminate-job message was sent.
C18_NormalCloseEndsSequence ==
    PeerClosedEarly
    => /\ outcome = StopIteration
       /\ yielded = [i \in 1..Len(received) |-> PairOf(received[i])]
       /\ TermCount = 1

\* C18 amended: after the peer's normal close before any "job-completed"
\* every frame received was yielded, and the sequence ends without an error
\* with one terminate-job message sent unless terminate() fails, in which case
\* the consumer gets terminate()'s error and no terminate-job message was sent.
C18_NormalCloseEndsSequenceUnlessCleanupFails ==
    PeerClosedEarly
    => /\ yielded = [i \in 1..Len(received) |-> PairOf(received[i])]
       /\ context = NoExc
       /\ IF CleanupFailed
            THEN outcome = exc /\ TermCount = 0
            ELSE outcome = StopIteration /\ TermCount = 1

\* The sequence ended normally after two events, the last not "job-completed".
C18_Witness ==
    /\ PeerClosedEarly
    /\ Len(yielded) = 2
    /\ yielded[2][1] # "job-completed"
    /\ outcome = StopIteration
    /\ TermCount = 1

(* ------------------------------------------------------------------ *)
(* C19                                                                  *)
(* ------------------------------------------------------------------ *)

\* C19: as long as the generator job() returned has not been asked for an
\* element, and also when it is closed without ever having been asked, no
\* connection has been opened and nothing has been sent, received or yielded.
C19_NothingHappensBeforeFirstRequest ==
    pc \in {"created", "closed"}
    => /\ conns = <<>>
       /\ websocket = 0 /\ tws = 0
       /\ FundCount = 0 /\ TermCount = 0
       /\ received = <<>> /\ yielded = <<>>
       /\ exc = NoExc

\* A generator that was made for a transaction and closed without being iterated.
C19_Witness == pc = "closed" /\ tx_hash = [id |-> "tx2"] /\ inbound # <<>>

(* ------------------------------------------------------------------ *)
(* C15                                                                  *)
(* ------------------------------------------------------------------ *)

\* C15: every pair yielded is (action, payload) of the frame received at the
\* same position, where payload is the frame's stdout whenever stdout is text
\* (the empty text included, and whether or not message is present) and
\* otherwise the frame's message: its text, its structure, or None when it is
\* null or missing; and a status frame that has been parsed is yielded.
C15_PayloadIsStdoutWhenPresent ==
    /\ Len(yielded) <= Len(received)
    /\ \A i \in 1..Len(yielded) :
         LET f == received[i]
             y == yielded[i]
         IN /\ y[1] = f.action.s
            /\ IF f.stdout.t = "str"
                 THEN y[2] = [py |-> "str", s |-> f.stdout.s]
                 ELSE CASE f.message.t = "str" -> y[2] = [py |-> "str", s |-> f.message.s]
                        [] f.message.t = "obj" -> y[2] = [py |-> "dict", k |-> f.message.k]
                        [] OTHER -> y[2] = [py |-> "None"]
    /\ pc = "yield" => Len(yielded) = Len(received)
    /\ (Len(received) = 1 /\ WellFormed(received[1]) /\ pc \in {"yield", "resume", "finally", "done"})
         => Len(yielded) = 1

\* An event whose stdout is the empty text and whose message is present was
\* yielded with the empty text as its payload.
C15_Witness ==
    /\ Len(yielded) = 1
    /\ received[1].stdout = JStr("")
    /\ received[1].message = JStr("msg")
    /\ yielded[1] = <<"job-status", [py |-> "str", s |-> ""]>>

(* ------------------------------------------------------------------ *)
(* C11                                                                  *)
(* ------------------------------------------------------------------ *)

\* The exceptions with which parsing a body into a JobConfig fails.
ParseFailures == {"JSONDecodeError", "ValidationError", "TypeError"}

\* C11 as stated: once the match endpoint has answered, exactly one POST was
\* made; an answer with a status from 200 to 299 was taken for a success and
\* its body parsed, giving the JobConfig of the body's fields or a parse
\* failure; any other status gave an error carrying the response's raw text
\* and no JobConfig.
C11_Every2xxStatusIsSuccess ==
    response # NoResponse
    => /\ posts = 1
       /\ IF response.status \in 200..299
            THEN \/ /\ job_config # NoConfig
                    /\ job_config.compute_provider_addr = response.body.compute_provider_addr.s
                    /\ job_config.signature = response.body.signature.s
                    /\ job_config.estimated_price = response.body.estimated_price.n
                 \/ /\ job_config = NoConfig
                    /\ scriptErr.type \in ParseFailures
            ELSE /\ job_config = NoConfig
                 /\ scriptErr.type = "HTTPError"
                 /\ scriptErr.text = response.text

(* ------------------------------------------------------------------ *)
(* C14                                                                  *)
(* ------------------------------------------------------------------ *)

\* C14: the step in which pay succeeds puts one transaction on the ledger
\* whose output goes to the script address with the amount cost(job_config)
\* and a datum of constructor 0 whose fields are, in this order, the payer's
\* payment key hash, the provider's payment key hash, the signature's bytes,
\* the JobConfig's oracle message, the chain's slot of that moment plus 86400,
\* 10 and 1.
C14_DatumOfPay ==
    [][ (spc = "pay" /\ spc' = "job")
        => /\ Len(chain') = Len(chain) + 1
           /\ LET out == chain'[Len(chain')].output IN
                /\ out.address = SCRIPT_ADDRESS
                /\ out.amount = cost(job_config)
                /\ out.datum_cbor.constr = 0
                /\ out.datum_cbor.fields =
                     << OwnAddress.bech32,
                        job_config.compute_provider_addr.bech32,
                        FromHex(job_config.signature),
                        job_config.oracle_message,
                        last_block_slot + 86400,
                        10,
                        1 >> ]_vars

\* A payment made after the chain had moved on, to the second provider, whose
\* oracle message is not ASCII.
C14_Witness ==
    /\ Len(chain) = 1
    /\ chain[1].output.datum_cbor.fields[5] = MaxSlot + 86400
    /\ chain[1].output.datum_cbor.fields[2] = ProviderB.bech32
    /\ chain[1].output.datum_cbor.fields[4] = job_config.oracle_message
    /\ job_config.oracle_message = <<195, 169>>

(* ------------------------------------------------------------------ *)
(* C16                                                                  *)
(* ------------------------------------------------------------------ *)

\* C16: at every point of a run (building the JobRequest from any preset,
\* request_service, pay, job with its terminate) the three presets have the
\* values CPU, RAM, VRAM, power, complexity, time = 500, 2000, 2000, 170, Low,
\* 1 and 1500, 8000, 8000, 220, Moderate, 1 and 2500, 16000, 24000, 350,
\* High, 1.
C16_PresetsExactAndUnchanged ==
    /\ DOMAIN presets = {"CONSTRAINTS_LOW", "CONSTRAINTS_MODERATE", "CONSTRAINTS_HIGH"}
    /\ presets["CONSTRAINTS_LOW"] =
         [CPU |-> 500, RAM |-> 2000, VRAM |-> 2000, power |-> 170,
          complexity |-> "Low", time |-> 1]
    /\ presets["CONSTRAINTS_MODERATE"] =
         [CPU |-> 1500, RAM |-> 8000, VRAM |-> 8000, power |-> 220,
          complexity |-> "Moderate", time |-> 1]
    /\ presets["CONSTRAINTS_HIGH"] =
         [CPU |-> 2500, RAM |-> 16000, VRAM |-> 24000, power |-> 350,
          complexity |-> "High", time |-> 1]

\* A whole run for a request built from the High preset: matched, paid,
\* monitored to the end and terminated.
C16_Witness ==
    /\ spc = "exit"
    /\ scriptErr = NoExc
    /\ job_request # NoRequest
    /\ job_request.constraints = "CONSTRAINTS_HIGH"
    /\ Len(chain) = 1
    /\ TermCount = 1

(* ------------------------------------------------------------------ *)
(* C12                                                                  *)
(* ------------------------------------------------------------------ *)

\* C12 as stated: for a JobConfig whose estimated_price is the float p, not
\* negative, cost returns 2000000 + floor(10000000 * p) lovelace, the product
\* and the floor taken exactly, and 10 of the token.
C12_CostIsExactFloor ==
    priced # NoAmount
    => /\ priced.coin = ExactLovelace(kwargs.estimated_price.n)
       /\ priced.ntx = 10

(* ------------------------------------------------------------------ *)
(* C13                                                                  *)
(* ------------------------------------------------------------------ *)

\* C13 as stated: constructing a JobConfig whose other fields are valid stores
\* the UTF-8 encoding of an oracle message given as text and the very bytes of
\* one given as bytes; an oracle message that is a number, a list, an object
\* or None makes the construction fail with a ValidationError, and there is no
\* JobConfig.
C13_OtherTypesFailWithValidationError ==
    built # NotBuilt
    => LET v == kwargs.oracle_message IN
         /\ (v.t = "str" /\ ConfigFieldsOk(kwargs))
              => built.ok /\ built.value.oracle_message = Utf8(v.s)
         /\ (v.t \in {"bytes", "ByteString"} /\ ConfigFieldsOk(kwargs))
              => built.ok /\ built.value.oracle_message = v.b
         /\ v.t \in {"num", "list", "obj", "null"}
              => ~built.ok /\ built.err.type = "ValidationError"

====
